---- MODULE Spec2Model ----
(***************************************************************************)
(* Booking serial numbers (sno), QR codes and event slugs of the           *)
(* event-management backend.                                               *)
(*                                                                         *)
(* The store is the SQLite database of settings.DATABASES: the event and   *)
(* booking tables.  Request handlers run in separate gunicorn workers      *)
(* (workers = 3, sync) and interleave at the granularity of their database *)
(* statements; the body of Booking.generate_unique_sno runs inside         *)
(* transaction.atomic and therefore reads one snapshot of the store;       *)
(* Event.save runs in no transaction, each of its queries is a step.       *)
(*                                                                         *)
(* Strings are sequences of one-character strings, so that splitting,      *)
(* formatting, parsing and ordering are computed and not assumed.          *)
(***************************************************************************)
EXTENDS Integers, Sequences, FiniteSets, TLC

(***************************************************************************)
(* Bounds of the model.                                                    *)
(***************************************************************************)
\* Concurrent request handlers, and the events and bookings they create.
NumProcs == 2
ConcEvents == 1
ConcBookings == 2

\* Events and bookings created in the runs of one handler at a time.
MaxEvents == 2
MaxBookings == 3

\* Length of the titles of the event rows the acronym is computed from.
MaxTitleLen == 7

\* Events created through the event API by concurrent handlers, rows of
\* the event tables the slug generator is run on, length of its titles.
SlugEvents == 2
MaxStore == 3
SlugTitleLen == 3
\* Registration and payment: the emergency contacts created and the
\* largest amount, in cents.
MaxContacts == 2
MaxAmount == 1
PayBookings == 1
\* Lookup by slug: the events of a store and the hosts they are assigned to.
PubEvents == 2
MaxHosts == 1

Procs == 1..NumProcs

\* Event titles the requests carry (the serializer's CharField trims them
\* and rejects a blank one): two words, and four words with a double space.
Titles ==
  { <<"a", " ", "b">>,
    <<"b", " ", "a", " ", " ", "c", " ", "d">> }

\* Event.title of a row written by Event.save: any string.
TitleChars == {" ", "a", "B"}

TitlesUpTo(n) == UNION { [1..k -> TitleChars] : k \in 0..n }

\* Serial numbers handed to Booking(...) by a caller that provides one
\* (Booking.save: "Generate SNO if not provided").
PresetSnos ==
  { <<"A", "-", "9", "9", "9">>,
    <<"A", "-", "x">> }

NoSno == << >>

NoSlug == << >>

\* Titles without a word: no API request carries one, a caller of
\* Event(...).save() can.
BlankTitles == { << >>, <<" ">> }

\* Titles of the requests to the concurrent event API: a word, and a title
\* no character of which survives slugify.
SlugApiTitles == { <<"a">>, <<"!">> }

\* Titles the slug generator is run on.
SlugTitleChars == {" ", "a", "B", "!"}

SlugTitlesUpTo(n) == UNION { [1..k -> SlugTitleChars] : k \in 0..n }

\* Slugs of the event tables the slug generator is run on: base slugs and
\* slugs with a counter, the empty slug among them.
SlugPool ==
  { << >>, <<"-", "1">>, <<"a">>, <<"a", "-", "1">>, <<"a", "-", "2">>, <<"b">> }

\* Title of the events of the concurrent runs: they share the acronym A.
ConcTitles == { <<"a">> }

(***************************************************************************)
(* Characters.                                                             *)
(***************************************************************************)
DigitChars == <<"0", "1", "2", "3", "4", "5", "6", "7", "8", "9">>

IsDigit(c) == \E i \in 1..10 : DigitChars[i] = c

DigitVal(c) == (CHOOSE i \in 1..10 : DigitChars[i] = c) - 1

\* Code point of a character: SQLite compares TEXT with the BINARY collation.
Ord(c) ==
  CASE c = " " -> 32
    [] c = "!" -> 33
    [] c = "-" -> 45
    [] IsDigit(c) -> 48 + DigitVal(c)
    [] c = "A" -> 65
    [] c = "B" -> 66
    [] c = "C" -> 67
    [] c = "D" -> 68
    [] c = "X" -> 88
    [] c = "a" -> 97
    [] c = "b" -> 98
    [] c = "c" -> 99
    [] c = "d" -> 100
    [] c = "x" -> 120

\* str.upper() on one character.
Upper(c) ==
  CASE c = "a" -> "A"
    [] c = "b" -> "B"
    [] c = "c" -> "C"
    [] c = "d" -> "D"
    [] c = "x" -> "X"
    [] OTHER -> c

\* str.lower() on one character.
Lower(c) ==
  CASE c = "A" -> "a"
    [] c = "B" -> "b"
    [] c = "C" -> "c"
    [] c = "D" -> "d"
    [] c = "X" -> "x"
    [] OTHER -> c

IsSpace(c) == c = " "

\* \w of the regular expressions of slugify, on ASCII text.
IsWordChar(c) ==
  \/ IsDigit(c)
  \/ c \in {"a", "b", "c", "d", "x", "A", "B", "C", "D", "X", "_"}

(***************************************************************************)
(* String helpers.                                                         *)
(***************************************************************************)
RECURSIVE Concat(_)
Concat(ss) == IF ss = << >> THEN << >> ELSE Head(ss) \o Concat(Tail(ss))

\* str.split(): the maximal runs of non-whitespace characters, in order.
RECURSIVE SplitFrom(_, _, _)
SplitFrom(s, cur, acc) ==
  IF s = << >>
    THEN IF cur = << >> THEN acc ELSE Append(acc, cur)
    ELSE IF IsSpace(Head(s))
           THEN SplitFrom(Tail(s), << >>, IF cur = << >> THEN acc ELSE Append(acc, cur))
           ELSE SplitFrom(Tail(s), Append(cur, Head(s)), acc)

Split(s) == SplitFrom(s, << >>, << >>)

\* s.split('-')[-1]: what follows the last hyphen, the whole string if none.
RECURSIVE LastField(_)
LastField(s) ==
  IF \A i \in 1..Len(s) : s[i] # "-"
    THEN s
    ELSE LastField(Tail(s))

\* What precedes the last hyphen (empty if there is no hyphen).
BeforeLastHyphen(s) ==
  IF \A i \in 1..Len(s) : s[i] # "-"
    THEN << >>
    ELSE SubSeq(s, 1, Len(s) - Len(LastField(s)) - 1)

\* int(s) succeeds on a non-empty string of decimal digits.
CanParseInt(s) == s # << >> /\ \A i \in 1..Len(s) : IsDigit(s[i])

RECURSIVE ParseInt(_)
ParseInt(s) ==
  IF s = << >> THEN 0
  ELSE ParseInt(SubSeq(s, 1, Len(s) - 1)) * 10 + DigitVal(s[Len(s)])

RECURSIVE Decimal(_)
Decimal(n) ==
  IF n < 10 THEN <<DigitChars[n + 1]>>
  ELSE Append(Decimal(n \div 10), DigitChars[(n % 10) + 1])

\* Mutant of Format03d: the width of the format is 2.
Format02d(n) ==
  LET d == Decimal(n)
  IN  IF Len(d) >= 2 THEN d ELSE [i \in 1..(2 - Len(d)) |-> "0"] \o d

\* f"{n:03d}": the decimal digits of n, zero-padded on the left to width 3.
Format03d(n) ==
  LET d == Decimal(n)
  IN  IF Len(d) >= 3 THEN d ELSE [i \in 1..(3 - Len(d)) |-> "0"] \o d

\* re.sub(r'[^\w\s-]', '', value.lower())
RECURSIVE KeepSlugChars(_)
KeepSlugChars(s) ==
  IF s = << >> THEN << >>
  ELSE LET c == Lower(Head(s))
       IN  IF IsWordChar(c) \/ IsSpace(c) \/ c = "-"
             THEN <<c>> \o KeepSlugChars(Tail(s))
             ELSE KeepSlugChars(Tail(s))

\* re.sub(r'[-\s]+', '-', value): each run of hyphens and spaces becomes
\* one hyphen.
RECURSIVE CollapseSeparators(_, _)
CollapseSeparators(s, inRun) ==
  IF s = << >> THEN << >>
  ELSE IF IsSpace(Head(s)) \/ Head(s) = "-"
         THEN (IF inRun THEN << >> ELSE <<"-">>) \o CollapseSeparators(Tail(s), TRUE)
         ELSE <<Head(s)>> \o CollapseSeparators(Tail(s), FALSE)

\* str.strip('-_')
RECURSIVE StripSeparators(_)
StripSeparators(s) ==
  IF s = << >> THEN s
  ELSE IF Head(s) \in {"-", "_"} THEN StripSeparators(Tail(s))
  ELSE IF s[Len(s)] \in {"-", "_"} THEN StripSeparators(SubSeq(s, 1, Len(s) - 1))
  ELSE s

\* django.utils.text.slugify on ASCII text: lower-case, drop what is not a
\* word character, a space or a hyphen, collapse the separators, strip them
\* at both ends.
slugify(title) == StripSeparators(CollapseSeparators(KeepSlugChars(title), FALSE))

\* Byte-wise string order (memcmp, then length).
RECURSIVE StrLess(_, _)
StrLess(a, b) ==
  IF b = << >> THEN FALSE
  ELSE IF a = << >> THEN TRUE
  ELSE IF Ord(Head(a)) # Ord(Head(b)) THEN Ord(Head(a)) < Ord(Head(b))
  ELSE StrLess(Tail(a), Tail(b))

(***************************************************************************)
(* State.                                                                  *)
(*   events    the event table: id -> row (DOMAIN = the persisted events)  *)
(*   bookings  the booking table: id -> row                                *)
(*   nextEventId, nextBookingId   the tables' AUTOINCREMENT counters       *)
(*   pc, local the position and the in-memory model instance of each       *)
(*             request handler                                             *)
(*   resp      the outcome of each handler's last request                  *)
(*   contacts  the ids of the rows of the EmergencyContact table           *)
(*   outbox    the serial numbers whose confirmation email has been sent   *)
(***************************************************************************)
VARIABLES events, bookings, nextEventId, nextBookingId, pc, local, resp,
          contacts, outbox

vars ==
  <<events, bookings, nextEventId, nextBookingId, pc, local, resp,
    contacts, outbox>>

\* An ImageField without a file.
NoQr == [filename |-> << >>, activation_url |-> << >>]

\* An in-memory model instance: a Booking (event, sno, is_activated,
\* qr_code, payment_amount and total_amount in cents; title is the title
\* of its cached event, new_number the number the generator computed) or
\* an Event (title, slug; counter is the local
\* variable of the loop of Event.save).  id is 0 until the row is inserted.
NoLocal ==
  [id |-> 0, event |-> 0, title |-> << >>, sno |-> NoSno,
   is_activated |-> FALSE, qr_code |-> NoQr, new_number |-> 0,
   payment_amount |-> 0, total_amount |-> 0,
   slug |-> NoSlug, counter |-> 0]

\* The sno column of the rows of a booking table.
Snos(bk) == { bk[b].sno : b \in DOMAIN bk }

(***************************************************************************)
(* Booking.generate_unique_sno, as a function of the snapshot bk of the    *)
(* booking table it reads, the booking's event id and that event's title   *)
(* as held by the booking's cached event instance.                         *)
(***************************************************************************)
\* Mutant of event_acronym: a title without words gets the acronym X.
event_acronym_placeholder(title) ==
  LET words == Split(title)
      first3 == SubSeq(words, 1, IF Len(words) < 3 THEN Len(words) ELSE 3)
  IN  IF words = << >> THEN <<"X">>
      ELSE Concat([i \in 1..Len(first3) |-> <<Upper(Head(first3[i]))>>])

\* Mutant of event_acronym: the slice is [:2].
event_acronym_two_words(title) ==
  LET words == Split(title)
      first2 == SubSeq(words, 1, IF Len(words) < 2 THEN Len(words) ELSE 2)
  IN  Concat([i \in 1..Len(first2) |-> <<Upper(Head(first2[i]))>>])

\* ''.join([word[0].upper() for word in self.event.title.split()[:3]])
event_acronym(title) ==
  LET words == Split(title)
      first3 == SubSeq(words, 1, IF Len(words) < 3 THEN Len(words) ELSE 3)
  IN  Concat([i \in 1..Len(first3) |-> <<Upper(Head(first3[i]))>>])

\* Booking.objects.filter(event=self.event)
existing_bookings(bk, e) == { b \in DOMAIN bk : bk[b].event = e }

\* existing_bookings.order_by('-sno').first().sno
highest_sno(bk, e) ==
  LET ss == { bk[b].sno : b \in existing_bookings(bk, e) }
  IN  CHOOSE s \in ss : \A t \in ss : t = s \/ StrLess(t, s)

\* Mutant of parse_fallback: only the bookings whose suffix parses count.
parse_fallback_parsable(bk, e) ==
  Cardinality({ b \in existing_bookings(bk, e) : CanParseInt(LastField(bk[b].sno)) })

\* except (ValueError, IndexError): highest_number = existing_bookings.count()
parse_fallback(bk, e) == Cardinality(existing_bookings(bk, e))

\* Mutant of highest_number: an event without bookings starts from 1.
highest_number_from_one(bk, e) ==
  IF existing_bookings(bk, e) # {}
    THEN LET field == LastField(highest_sno(bk, e))
         IN  IF CanParseInt(field) THEN ParseInt(field) ELSE parse_fallback(bk, e)
    ELSE 1

highest_number(bk, e) ==
  IF existing_bookings(bk, e) # {}
    THEN LET field == LastField(highest_sno(bk, e))
         IN  IF CanParseInt(field) THEN ParseInt(field) ELSE parse_fallback(bk, e)
    ELSE 0

\* f"{event_acronym}-{n:03d}"
make_sno(acronym, n) == acronym \o <<"-">> \o Format03d(n)

\* Mutant of sno_exists: the re-check looks at the event's bookings only.
sno_exists_in_event(bk, e, s) == \E b \in existing_bookings(bk, e) : bk[b].sno = s

\* Booking.objects.filter(sno=new_sno).exists()
sno_exists(bk, e, s) == \E b \in DOMAIN bk : bk[b].sno = s

\* while Booking.objects.filter(sno=new_sno).exists(): ... counter += 1
RECURSIVE unique_loop(_, _, _, _, _, _)
unique_loop(bk, e, acronym, new_number, counter, new_sno) ==
  IF sno_exists(bk, e, new_sno)
    THEN unique_loop(bk, e, acronym, new_number, counter + 1,
                     make_sno(acronym, new_number + counter))
    ELSE new_sno

generate_unique_sno(bk, e, title) ==
  LET acronym == event_acronym(title)
      new_number == highest_number(bk, e) + 1
  IN  unique_loop(bk, e, acronym, new_number, 1, make_sno(acronym, new_number))

\* settings.FRONTEND_URL; the constant parts of a string are one element.
FRONTEND_URL == <<"https://event-fe.onrender.com">>

\* Booking.generate_qr_code: the URL encoded in the image and the name the
\* image file is saved under.
generate_qr_code(sno) ==
  [filename |-> sno \o <<"_qr.png">>,
   activation_url |-> FRONTEND_URL \o <<"/activate/">> \o sno]

\* Booking.save:  if not self.qr_code: self.generate_qr_code()
qr_on_save(l) == IF l.qr_code = NoQr THEN generate_qr_code(l.sno) ELSE l.qr_code

\* Mutant of sno_on_save: every save generates a serial number.
sno_on_save_always(l, bk) == generate_unique_sno(bk, l.event, l.title)

\* Booking.save:  if not self.sno: self.sno = self.generate_unique_sno()
sno_on_save(l, bk) ==
  IF l.sno = NoSno THEN generate_unique_sno(bk, l.event, l.title) ELSE l.sno

\* Mutant of total_on_save: every save copies payment_amount.
total_on_save_always(l) == l.payment_amount

\* Booking.save:  if self.payment_amount > 0:
\*                    self.total_amount = self.payment_amount
total_on_save(l) ==
  IF l.payment_amount > 0 THEN l.payment_amount ELSE l.total_amount

\* Mutant of Booking_presave: the QR code is generated before the sno.
Booking_presave_qr_first(l, bk) ==
  LET q == [l EXCEPT !.qr_code = qr_on_save(l)]
      s == [q EXCEPT !.sno = sno_on_save(q, bk)]
  IN  [s EXCEPT !.total_amount = total_on_save(s)]

\* Booking.save up to super().save(): the sno, then the QR code, then
\* total_amount.
Booking_presave(l, bk) ==
  LET s == [l EXCEPT !.sno = sno_on_save(l, bk)]
      q == [s EXCEPT !.qr_code = qr_on_save(s)]
  IN  [q EXCEPT !.total_amount = total_on_save(q)]

(***************************************************************************)
(* Event.save: the slug of an event, from its title and the event table.   *)
(***************************************************************************)
\* The slug column of the rows of an event table.
Slugs(ev) == { ev[e].slug : e \in DOMAIN ev }

\* Mutant of slug_exists: the query filters on the title column.
slug_exists_by_title(ev, slug) == \E e \in DOMAIN ev : ev[e].title = slug

\* Mutant of slug_exists: the slugs that unsaved instances hold count too.
slug_exists_or_held(ev, slug) ==
  \/ \E e \in DOMAIN ev : ev[e].slug = slug
  \/ \E p \in Procs : pc[p] = "ev_write" /\ local[p].slug = slug

\* Event.objects.filter(slug=slug).exists()
slug_exists(ev, slug) == \E e \in DOMAIN ev : ev[e].slug = slug

\* Mutant of slug_candidate: the counter starts at 2.
slug_candidate_from_two(base_slug, counter) ==
  base_slug \o <<"-">> \o Decimal(counter + 1)

\* Mutant of slug_candidate: the counter is not part of the slug.
slug_candidate_no_counter(base_slug, counter) ==
  base_slug \o <<"-">> \o Decimal(1)

\* f"{base_slug}-{counter}"
slug_candidate(base_slug, counter) == base_slug \o <<"-">> \o Decimal(counter)

\* if not self.slug or self.slug == "":
needs_slug(slug) == slug = NoSlug

\* while Event.objects.filter(slug=slug).exists(): ... counter += 1
\* run to its end on one event table.
RECURSIVE slug_loop(_, _, _, _)
slug_loop(ev, base_slug, slug, counter) ==
  IF slug_exists(ev, slug)
    THEN slug_loop(ev, base_slug, slug_candidate(base_slug, counter), counter + 1)
    ELSE slug

\* The slug of an instance after Event.save, before super().save().
slug_on_save(ev, slug, title) ==
  IF needs_slug(slug) THEN slug_loop(ev, slugify(title), slugify(title), 1) ELSE slug

(***************************************************************************)
(* The store.                                                              *)
(***************************************************************************)
\* Mutant of slug_unique_ok: the column has no UNIQUE index.
slug_unique_ok_no_index(ev, id, slug) == TRUE

\* slug = models.SlugField(max_length=255, unique=True, blank=True): the
\* UNIQUE index admits a row with this slug, other than row id, iff none
\* holds it.
slug_unique_ok(ev, id, slug) == \A e \in DOMAIN ev : e # id => ev[e].slug # slug

EventRow(l) == [title |-> l.title, slug |-> l.slug]

\* Mutant of unique_ok: the column has no UNIQUE index.
unique_ok_no_index(bk, id, s) == TRUE

\* sno = models.CharField(max_length=20, unique=True): the UNIQUE index
\* admits a row with serial number s, other than row id, iff none holds s.
unique_ok(bk, id, s) == \A b \in DOMAIN bk : b # id => bk[b].sno # s

\* event = models.ForeignKey(Event, on_delete=models.CASCADE)
fk_ok(ev, e) == e \in DOMAIN ev

Row(l) ==
  [event |-> l.event, sno |-> l.sno, is_activated |-> l.is_activated,
   qr_code |-> l.qr_code, payment_amount |-> l.payment_amount,
   total_amount |-> l.total_amount]

Put(f, k, v) == [x \in DOMAIN f \cup {k} |-> IF x = k THEN v ELSE f[x]]

Drop(f, ks) == [x \in DOMAIN f \ ks |-> f[x]]

\* Model.save() of an instance that has a primary key: UPDATE the row, and
\* INSERT it when no row was updated.  "ok" or the error raised.
save_outcome(l) ==
  IF ~unique_ok(bookings, l.id, l.sno) THEN "IntegrityError_sno"
  ELSE IF ~fk_ok(events, l.event) THEN "IntegrityError_fk"
  ELSE "ok"

(***************************************************************************)
(* Initial state: empty tables, idle handlers.                             *)
(***************************************************************************)
Init ==
  /\ events = << >>
  /\ bookings = << >>
  /\ nextEventId = 1
  /\ nextBookingId = 1
  /\ pc = [p \in Procs |-> "idle"]
  /\ local = [p \in Procs |-> NoLocal]
  /\ resp = [p \in Procs |-> "none"]
  /\ contacts = {}
  /\ outbox = {}

(***************************************************************************)
(* Events: EventViewSet create / update / destroy, each as one step: no   *)
(* other write of the event table falls between its statements.            *)
(***************************************************************************)
\* serializer.save() -> Event(title=t).save(): the slug, then the INSERT.
EventCreate(t) ==
  /\ events' = Put(events, nextEventId,
                   [title |-> t, slug |-> slug_on_save(events, NoSlug, t)])
  /\ nextEventId' = nextEventId + 1
  /\ UNCHANGED <<bookings, nextBookingId, pc, local, resp, contacts, outbox>>

\* serializer.save() -> instance.title = t; instance.save(): the slug is
\* generated again when the instance has none, then the UPDATE.
EventUpdate(e, t) ==
  /\ e \in DOMAIN events
  /\ events[e].title # t
  /\ events' = [events EXCEPT ![e] =
       [title |-> t, slug |-> slug_on_save(events, events[e].slug, t)]]
  /\ UNCHANGED <<bookings, nextEventId, nextBookingId, pc, local, resp,
                 contacts, outbox>>

\* instance.delete(): the event's bookings go with it (on_delete=CASCADE).
EventDestroy(e) ==
  /\ e \in DOMAIN events
  /\ events' = Drop(events, {e})
  /\ bookings' = Drop(bookings, existing_bookings(bookings, e))
  /\ UNCHANGED <<nextEventId, nextBookingId, pc, local, resp, contacts, outbox>>

(***************************************************************************)
(* The event API statement by statement: the handlers of concurrent        *)
(* requests interleave between the queries of Event.save.                  *)
(***************************************************************************)
CreatingEvents ==
  { p \in Procs : pc[p] \in {"ev_save", "ev_loop", "ev_write"} /\ local[p].id = 0 }

\* EventViewSet.create: serializer.save() builds Event(title=t) and calls
\* its save.
Event_new(p, t) ==
  /\ pc[p] = "idle"
  /\ pc' = [pc EXCEPT ![p] = "ev_save"]
  /\ local' = [local EXCEPT ![p] = [NoLocal EXCEPT !.title = t]]
  /\ resp' = [resp EXCEPT ![p] = "none"]
  /\ UNCHANGED <<events, bookings, nextEventId, nextBookingId,
                 contacts, outbox>>

\* EventViewSet.update: get_object() loads the row, serializer.save() sets
\* the validated title (slug is read-only) and calls save.
Event_load(p, e, t) ==
  /\ pc[p] = "idle"
  /\ e \in DOMAIN events
  /\ pc' = [pc EXCEPT ![p] = "ev_save"]
  /\ local' = [local EXCEPT ![p] =
       [NoLocal EXCEPT !.id = e, !.title = t, !.slug = events[e].slug]]
  /\ resp' = [resp EXCEPT ![p] = "none"]
  /\ UNCHANGED <<events, bookings, nextEventId, nextBookingId,
                 contacts, outbox>>

\* Event.save:  if not self.slug or self.slug == "":
\*                  base_slug = slugify(self.title); slug = base_slug; counter = 1
Event_save(p) ==
  /\ pc[p] = "ev_save"
  /\ IF needs_slug(local[p].slug)
       THEN /\ local' = [local EXCEPT ![p].slug = slugify(local[p].title),
                                      ![p].counter = 1]
            /\ pc' = [pc EXCEPT ![p] = "ev_loop"]
       ELSE /\ pc' = [pc EXCEPT ![p] = "ev_write"]
            /\ UNCHANGED local
  /\ UNCHANGED <<events, bookings, nextEventId, nextBookingId, resp,
                 contacts, outbox>>

\* One evaluation of the condition of the while loop: the body when the
\* query finds a row, self.slug = slug when it finds none.
Event_save_loop(p) ==
  /\ pc[p] = "ev_loop"
  /\ IF slug_exists(events, local[p].slug)
       THEN /\ local' = [local EXCEPT
                 ![p].slug = slug_candidate(slugify(local[p].title), local[p].counter),
                 ![p].counter = local[p].counter + 1]
            /\ UNCHANGED pc
       ELSE /\ pc' = [pc EXCEPT ![p] = "ev_write"]
            /\ UNCHANGED local
  /\ UNCHANGED <<events, bookings, nextEventId, nextBookingId, resp,
                 contacts, outbox>>

\* super().save(): the INSERT of a new instance; for a loaded one the
\* UPDATE, and the INSERT under its id when its row has been deleted.  An
\* IntegrityError is caught nowhere: it ends the request.
Event_write(p) ==
  /\ pc[p] = "ev_write"
  /\ LET l == local[p]
         id == IF l.id = 0 THEN nextEventId ELSE l.id
     IN  IF slug_unique_ok(events, id, l.slug)
           THEN /\ events' = Put(events, id, EventRow(l))
                /\ nextEventId' = IF l.id = 0 THEN nextEventId + 1 ELSE nextEventId
                /\ resp' = [resp EXCEPT ![p] = IF l.id = 0 THEN "201" ELSE "200"]
           ELSE /\ resp' = [resp EXCEPT ![p] = "IntegrityError_slug"]
                /\ UNCHANGED <<events, nextEventId>>
  /\ local' = [local EXCEPT ![p] = NoLocal]
  /\ pc' = [pc EXCEPT ![p] = "idle"]
  /\ UNCHANGED <<bookings, nextBookingId, contacts, outbox>>

(***************************************************************************)
(* Creation of a booking: BookingViewSet.create / register_for_event, or   *)
(* any caller of Booking(...).save() that provides an sno.                 *)
(***************************************************************************)
Creating == { p \in Procs : pc[p] \in {"save", "insert"} }

\* serializer.is_valid(): the event is loaded by its primary key and its
\* row is cached on the new instance.  sno is read-only in the serializer:
\* the API always starts from given = NoSno.  payment_amount and
\* total_amount are writable fields.
BookingCreate_amounts(p, e, given, payment_amount, total_amount) ==
  /\ pc[p] = "idle"
  /\ e \in DOMAIN events
  /\ pc' = [pc EXCEPT ![p] = "save"]
  /\ local' = [local EXCEPT ![p] =
       [NoLocal EXCEPT !.event = e, !.title = events[e].title, !.sno = given,
                       !.payment_amount = payment_amount,
                       !.total_amount = total_amount]]
  /\ resp' = [resp EXCEPT ![p] = "none"]
  /\ UNCHANGED <<events, bookings, nextEventId, nextBookingId,
                 contacts, outbox>>

\* A creation request that provides no amounts: both fields take their
\* default, 0.00.
BookingCreate(p, e, given) == BookingCreate_amounts(p, e, given, 0, 0)

\* Booking.save, up to the INSERT:
\*   if not self.sno: self.sno = self.generate_unique_sno()
\*   if not self.qr_code: self.generate_qr_code()
\*   if self.payment_amount > 0: self.total_amount = self.payment_amount
Booking_save(p) ==
  /\ pc[p] = "save"
  /\ LET l == local[p]
     IN  local' = [local EXCEPT ![p] =
           [Booking_presave(l, bookings) EXCEPT
              !.title = << >>,
              !.new_number =
                 IF l.sno = NoSno THEN highest_number(bookings, l.event) + 1 ELSE 0]]
  /\ pc' = [pc EXCEPT ![p] = "insert"]
  /\ UNCHANGED <<events, bookings, nextEventId, nextBookingId, resp,
                 contacts, outbox>>

\* super().save() of the new instance: the INSERT.  An IntegrityError is
\* caught nowhere: it ends the request.
Booking_insert(p) ==
  /\ pc[p] = "insert"
  /\ LET l == [local[p] EXCEPT !.id = nextBookingId]
         out == save_outcome(l)
     IN  IF out = "ok"
           THEN /\ bookings' = Put(bookings, l.id, Row(l))
                /\ nextBookingId' = nextBookingId + 1
                /\ local' = [local EXCEPT ![p] =
                     [l EXCEPT !.new_number = 0]]
                /\ pc' = [pc EXCEPT ![p] = "resave"]
                /\ UNCHANGED resp
           ELSE /\ resp' = [resp EXCEPT ![p] = out]
                /\ local' = [local EXCEPT ![p] = NoLocal]
                /\ pc' = [pc EXCEPT ![p] = "idle"]
                /\ UNCHANGED <<bookings, nextBookingId>>
  /\ UNCHANGED <<events, nextEventId, contacts, outbox>>

\* Booking.save of the instance inst of handler p, which has a primary key.
WriteBack(p, inst, okResp) ==
  LET l == Booking_presave(inst, bookings)
      out == save_outcome(l)
  IN  /\ bookings' = IF out = "ok" THEN Put(bookings, l.id, Row(l)) ELSE bookings
      /\ resp' = [resp EXCEPT ![p] = IF out = "ok" THEN okResp ELSE out]
      /\ local' = [local EXCEPT ![p] = NoLocal]
      /\ pc' = [pc EXCEPT ![p] = "idle"]
      /\ UNCHANGED <<events, nextEventId, nextBookingId, contacts, outbox>>

\* booking.generate_qr_code(); booking.save()   (the views, after create)
BookingCreate_resave(p) ==
  /\ pc[p] = "resave"
  /\ WriteBack(p, [local[p] EXCEPT !.qr_code = generate_qr_code(local[p].sno)], "201")

(***************************************************************************)
(* QR scan: BookingViewSet.scan_qr / scan_qr_by_sno.                       *)
(***************************************************************************)
\* Mutant of toggle: a scan activates the booking.
toggle_activate(is_activated) == TRUE

\* booking.is_activated = not booking.is_activated
toggle(is_activated) == ~is_activated

\* Mutant of status: the two strings are exchanged.
status_exchanged(is_activated) == IF is_activated THEN "Not Scanned" ELSE "Activated"

\* Booking.status:  "Activated" if self.is_activated else "Not Scanned"
status(is_activated) == IF is_activated THEN "Activated" ELSE "Not Scanned"

\* The response of a scan: 200 with 'status': booking.status of the
\* instance that was saved.
scan_response(inst) ==
  IF status(inst.is_activated) = "Activated" THEN "200 Activated"
  ELSE "200 Not Scanned"

\* booking = Booking.objects.get(...); booking.is_activated = not ...
scan_qr_read(p, b) ==
  /\ pc[p] = "idle"
  /\ b \in DOMAIN bookings
  /\ local' = [local EXCEPT ![p] =
       [NoLocal EXCEPT !.id = b, !.event = bookings[b].event,
                       !.sno = bookings[b].sno,
                       !.qr_code = bookings[b].qr_code,
                       !.payment_amount = bookings[b].payment_amount,
                       !.total_amount = bookings[b].total_amount,
                       !.is_activated = toggle(bookings[b].is_activated)]]
  /\ pc' = [pc EXCEPT ![p] = "scan_save"]
  /\ resp' = [resp EXCEPT ![p] = "none"]
  /\ UNCHANGED <<events, bookings, nextEventId, nextBookingId,
                 contacts, outbox>>

\* booking.save()
scan_qr_save(p) ==
  /\ pc[p] = "scan_save"
  /\ WriteBack(p, local[p], scan_response(local[p]))

(***************************************************************************)
(* BookingViewSet update / destroy.                                        *)
(***************************************************************************)
\* PUT/PATCH: get_object() loads the row, serializer.save() sets the
\* writable fields (sno is in read_only_fields, qr_code is no field of the
\* serializer) and calls Booking.save.
BookingUpdate_amounts(b, e, act, payment_amount, total_amount) ==
  /\ b \in DOMAIN bookings
  /\ e \in DOMAIN events
  /\ LET inst == [NoLocal EXCEPT !.id = b, !.event = e,
                                 !.sno = bookings[b].sno,
                                 !.qr_code = bookings[b].qr_code,
                                 !.is_activated = act,
                                 !.payment_amount = payment_amount,
                                 !.total_amount = total_amount]
     IN  bookings' = [bookings EXCEPT ![b] = Row(Booking_presave(inst, bookings))]
  /\ UNCHANGED <<events, nextEventId, nextBookingId, pc, local, resp,
                 contacts, outbox>>

\* An update that changes the event or is_activated and sends the stored
\* amounts back.
BookingUpdate(b, e, act) ==
  /\ b \in DOMAIN bookings
  /\ <<e, act>> # <<bookings[b].event, bookings[b].is_activated>>
  /\ BookingUpdate_amounts(b, e, act, bookings[b].payment_amount,
                           bookings[b].total_amount)

BookingDestroy(b) ==
  /\ b \in DOMAIN bookings
  /\ bookings' = Drop(bookings, {b})
  /\ UNCHANGED <<events, nextEventId, nextBookingId, pc, local, resp,
                 contacts, outbox>>

(***************************************************************************)
(* register_for_event, one request at a time: the lookup of the event, the *)
(* emergency contact, the validation and the two saves of the booking are  *)
(* one step; the notification steps follow.                                *)
(***************************************************************************)
\* Mutant of caught: the try block around the whole notification is absent.
caught_inner_only(step) == step \in {"fetch_qr", "send_email"}

\* Whether an exception raised in a notification step is caught in the
\* view: requests.get (try/except Exception of lines 362-393), the PDF
\* (the try of line 344, except Exception of line 647), msg.send (lines
\* 628-643).  No handler re-raises.
caught(step) == step \in {"fetch_qr", "build_pdf", "send_email"}

\* return Response(return_serializer.data, status=201), or the 500 of an
\* exception that leaves the view.
register_respond(p, code) ==
  /\ resp' = [resp EXCEPT ![p] = code]
  /\ local' = [local EXCEPT ![p] = NoLocal]
  /\ pc' = [pc EXCEPT ![p] = "idle"]

\* Lines 274-341.  valid is the outcome of serializer.is_valid() on the
\* fields of the request; amount is the request's total_amount, which the
\* view passes as payment_amount and as total_amount.
register_for_event(p, event_id, emergency_contact_data, valid, amount) ==
  /\ pc[p] = "idle"
  /\ IF event_id \notin DOMAIN events
       THEN /\ resp' = [resp EXCEPT ![p] = "404"]
            /\ UNCHANGED <<bookings, nextBookingId, pc, local, contacts>>
       ELSE /\ contacts' = IF emergency_contact_data
                             THEN contacts \cup {Cardinality(contacts) + 1}
                             ELSE contacts
            /\ IF ~valid
                 THEN /\ resp' = [resp EXCEPT ![p] = "400"]
                      /\ UNCHANGED <<bookings, nextBookingId, pc, local>>
                 ELSE LET new == [NoLocal EXCEPT !.event = event_id,
                                                !.title = events[event_id].title,
                                                !.payment_amount = amount,
                                                !.total_amount = amount]
                          created == [Booking_presave(new, bookings) EXCEPT
                                        !.id = nextBookingId, !.title = << >>]
                          out == save_outcome(created)
                          again == Booking_presave(
                                     [created EXCEPT
                                        !.qr_code = generate_qr_code(created.sno)],
                                     bookings)
                      IN  IF out = "ok"
                            THEN /\ bookings' = Put(bookings, created.id, Row(again))
                                 /\ nextBookingId' = nextBookingId + 1
                                 /\ local' = [local EXCEPT ![p] = again]
                                 /\ pc' = [pc EXCEPT ![p] = "fetch_qr"]
                                 /\ resp' = [resp EXCEPT ![p] = "none"]
                            ELSE /\ resp' = [resp EXCEPT ![p] = out]
                                 /\ UNCHANGED <<bookings, nextBookingId, pc, local>>
  /\ UNCHANGED <<events, nextEventId, outbox>>

\* qr_response = requests.get(qr_code_api_url): a failure is printed and
\* the view goes on without the image.
register_fetch_qr(p, fails) ==
  /\ pc[p] = "fetch_qr"
  /\ IF fails /\ ~caught("fetch_qr")
       THEN register_respond(p, "500")
       ELSE /\ pc' = [pc EXCEPT ![p] = "build_pdf"]
            /\ UNCHANGED <<local, resp>>
  /\ UNCHANGED <<events, bookings, nextEventId, nextBookingId, contacts, outbox>>

\* doc.build(...): a failure leaves the try block of line 344, the email
\* is not sent.
register_build_pdf(p, fails) ==
  /\ pc[p] = "build_pdf"
  /\ IF fails
       THEN register_respond(p, IF caught("build_pdf") THEN "201" ELSE "500")
       ELSE /\ pc' = [pc EXCEPT ![p] = "send_email"]
            /\ UNCHANGED <<local, resp>>
  /\ UNCHANGED <<events, bookings, nextEventId, nextBookingId, contacts, outbox>>

\* msg.send(), then the response.
register_send_email(p, fails) ==
  /\ pc[p] = "send_email"
  /\ IF fails
       THEN /\ register_respond(p, IF caught("send_email") THEN "201" ELSE "500")
            /\ UNCHANGED outbox
       ELSE /\ register_respond(p, "201")
            /\ outbox' = outbox \cup {local[p].sno}
  /\ UNCHANGED <<events, bookings, nextEventId, nextBookingId, contacts>>

(***************************************************************************)
(* event_by_slug.  The rows of the event table carry here, besides title   *)
(* and slug, the two columns the view reads: is_published and the id of    *)
(* the assigned host.                                                      *)
(***************************************************************************)
HostIds == 1..MaxHosts

\* The ids of the users: those of the hosts and one more.
UserIds == 1..(MaxHosts + 1)

\* request.user of a request without credentials.
Anonymous == [is_authenticated |-> FALSE, id |-> 0, is_superuser |-> FALSE]

Requesters ==
  {Anonymous} \cup [is_authenticated : {TRUE}, id : UserIds, is_superuser : BOOLEAN]

\* Mutant of allowed: every authenticated user sees an unpublished event.
allowed_authenticated(event, user) == event.is_published \/ user.is_authenticated

\* Lines 245-257: published, or a superuser, or
\* str(event.assigned_host.id) == str(user.id); user is None unless
\* request.user.is_authenticated.
allowed(event, user) ==
  \/ event.is_published
  \/ user.is_authenticated /\ user.is_superuser
  \/ user.is_authenticated /\ Decimal(event.assigned_host) = Decimal(user.id)

\* Event.objects.get(slug=slug), the checks, and the response: the
\* serialized event, or a 404 with the error of the branch.
event_by_slug(p, slug, user) ==
  /\ pc[p] = "idle"
  /\ LET found == { e \in DOMAIN events : events[e].slug = slug }
     IN  resp' = [resp EXCEPT ![p] =
           IF found = {} THEN "404 Event not found"
           ELSE IF allowed(events[CHOOSE e \in found : TRUE], user) THEN "200"
           ELSE "404 Event not published"]
  /\ UNCHANGED <<events, bookings, nextEventId, nextBookingId, pc, local,
                 contacts, outbox>>

(***************************************************************************)
(* Specifications.  The tables' id counters are unbounded in the program;  *)
(* each specification caps the events and the bookings it creates.         *)
(***************************************************************************)
\* The event API with titles from T, at most maxE events created.
EventSteps(T, maxE) ==
  \/ \E t \in T : nextEventId <= maxE /\ EventCreate(t)
  \/ \E e \in DOMAIN events, t \in T : EventUpdate(e, t)
  \/ \E e \in DOMAIN events : EventDestroy(e)

\* The handlers in P creating bookings with provided serial numbers from G,
\* at most maxB bookings created.
CreateSteps(P, G, maxB) ==
  \/ \E p \in P, e \in DOMAIN events, g \in G :
       nextBookingId + Cardinality(Creating) <= maxB /\ BookingCreate(p, e, g)
  \/ \E p \in P : Booking_save(p)
  \/ \E p \in P : Booking_insert(p)
  \/ \E p \in P : BookingCreate_resave(p)

ScanSteps(P) ==
  \/ \E p \in P, b \in DOMAIN bookings : scan_qr_read(p, b)
  \/ \E p \in P : scan_qr_save(p)

\* Update of a booking: is_activated, and its event when moves is TRUE.
UpdateSteps(moves) ==
  \E b \in DOMAIN bookings, act \in BOOLEAN :
    \E e \in (IF moves THEN DOMAIN events ELSE {bookings[b].event}) :
      BookingUpdate(b, e, act)

DestroySteps == \E b \in DOMAIN bookings : BookingDestroy(b)

\* Concurrent handlers: creations, scans and deletions in every
\* interleaving, all events with the same acronym.
Next ==
  \/ \E t \in ConcTitles : nextEventId <= ConcEvents /\ EventCreate(t)
  \/ \E e \in DOMAIN events : EventDestroy(e)
  \/ CreateSteps(Procs, {NoSno}, ConcBookings)
  \/ ScanSteps(Procs)
  \/ DestroySteps

Spec == Init /\ [][Next]_vars

\* One handler at a time, every operation on bookings: creations with and
\* without a provided serial number, scans, updates that move bookings.
NextSeq ==
  \/ \E t \in ConcTitles : nextEventId <= ConcEvents /\ EventCreate(t)
  \/ \E e \in DOMAIN events : EventDestroy(e)
  \/ CreateSteps({1}, {NoSno} \cup PresetSnos, ConcBookings)
  \/ ScanSteps({1})
  \/ UpdateSteps(TRUE)
  \/ DestroySteps

SpecSeq == Init /\ [][NextSeq]_vars

\* Tickets at the door: handler 2 registers attendees one at a time,
\* handler 1 scans tickets, bookings are deleted.
NextTicket ==
  \/ \E t \in ConcTitles : nextEventId <= ConcEvents /\ EventCreate(t)
  \/ CreateSteps({2}, {NoSno}, ConcBookings)
  \/ ScanSteps({1})
  \/ DestroySteps

SpecTicket == Init /\ [][NextTicket]_vars

\* The generator across events: one creation at a time, title changes,
\* provided serial numbers, deletions.
NextGen ==
  \/ EventSteps(Titles, MaxEvents)
  \/ CreateSteps({1}, {NoSno} \cup PresetSnos, ConcBookings)
  \/ DestroySteps

SpecGen == Init /\ [][NextGen]_vars

\* The generator on the bookings of one event: one creation at a time,
\* title changes, provided serial numbers, deletions.
NextOne ==
  \/ EventSteps(Titles, ConcEvents)
  \/ CreateSteps({1}, {NoSno} \cup PresetSnos, MaxBookings)
  \/ DestroySteps

SpecOne == Init /\ [][NextOne]_vars

\* Events whose titles have no word, written by Event(...).save(), and the
\* bookings created for them.
NextBlank ==
  \/ EventSteps(BlankTitles, MaxEvents)
  \/ CreateSteps({1}, {NoSno}, ConcBookings)
  \/ DestroySteps

SpecBlank == Init /\ [][NextBlank]_vars

\* Scans at the door, one request at a time: handler 1 registers attendees
\* and scans tickets; no other request changes a booking.
NextScanSeq ==
  \/ \E t \in ConcTitles : nextEventId <= ConcEvents /\ EventCreate(t)
  \/ CreateSteps({1}, {NoSno} \cup PresetSnos, ConcBookings)
  \/ ScanSteps({1})

SpecScanSeq == Init /\ [][NextScanSeq]_vars

\* Concurrent scans and nothing else: the store after ConcBookings
\* registrations for one event, each booking activated or not by earlier
\* scans, and every handler scanning.
InitScan ==
  /\ \E t \in ConcTitles, acts \in [1..ConcBookings -> BOOLEAN] :
       /\ events = <<[title |-> t, slug |-> slug_on_save(<< >>, NoSlug, t)]>>
       /\ bookings = [b \in 1..ConcBookings |->
            LET sno == make_sno(event_acronym(t), b)
            IN  [event |-> 1, sno |-> sno, is_activated |-> acts[b],
                 qr_code |-> generate_qr_code(sno),
                 payment_amount |-> 0, total_amount |-> 0]]
  /\ nextEventId = 2
  /\ nextBookingId = ConcBookings + 1
  /\ pc = [p \in Procs |-> "idle"]
  /\ local = [p \in Procs |-> NoLocal]
  /\ resp = [p \in Procs |-> "none"]
  /\ contacts = {}
  /\ outbox = {}

NextScan == ScanSteps(Procs)

SpecScan == InitScan /\ [][NextScan]_vars

\* The amounts of a request, in cents.
Amounts == -1..MaxAmount

\* Registrations, one request at a time, for event ids that exist or not,
\* with and without an emergency contact, valid or not; every notification
\* step may fail.
NextRegister ==
  \/ \E t \in ConcTitles : nextEventId <= ConcEvents /\ EventCreate(t)
  \/ \E e \in 1..ConcEvents, ec \in BOOLEAN, valid \in BOOLEAN, a \in Amounts :
       /\ nextBookingId <= ConcBookings
       /\ ec => Cardinality(contacts) < MaxContacts
       /\ register_for_event(1, e, ec, valid, a)
  \/ \E fails \in BOOLEAN : register_fetch_qr(1, fails)
  \/ \E fails \in BOOLEAN : register_build_pdf(1, fails)
  \/ \E fails \in BOOLEAN : register_send_email(1, fails)

SpecRegister == Init /\ [][NextRegister]_vars

\* Payments, one request at a time, for one event: at most PayBookings
\* bookings created with any amounts, scans, and updates that set the
\* amounts of a booking.
InitPay ==
  /\ \E t \in ConcTitles :
       events = <<[title |-> t, slug |-> slug_on_save(<< >>, NoSlug, t)]>>
  /\ bookings = << >>
  /\ nextEventId = 2
  /\ nextBookingId = 1
  /\ pc = [p \in Procs |-> "idle"]
  /\ local = [p \in Procs |-> NoLocal]
  /\ resp = [p \in Procs |-> "none"]
  /\ contacts = {}
  /\ outbox = {}

NextPay ==
  \/ \E e \in DOMAIN events, pay \in Amounts, tot \in Amounts :
       /\ nextBookingId + Cardinality(Creating) <= PayBookings
       /\ BookingCreate_amounts(1, e, NoSno, pay, tot)
  \/ Booking_save(1)
  \/ Booking_insert(1)
  \/ BookingCreate_resave(1)
  \/ ScanSteps({1})
  \/ \E b \in DOMAIN bookings, pay \in Amounts, tot \in Amounts :
       BookingUpdate_amounts(b, bookings[b].event, bookings[b].is_activated,
                             pay, tot)

SpecPay == InitPay /\ [][NextPay]_vars

\* The acronym of every title: one event row with any title of at most
\* MaxTitleLen characters, and the bookings created for it.
InitTitle ==
  /\ \E t \in TitlesUpTo(MaxTitleLen) :
       events = <<[title |-> t, slug |-> slug_on_save(<< >>, NoSlug, t)]>>
  /\ bookings = << >>
  /\ nextEventId = 2
  /\ nextBookingId = 1
  /\ pc = [p \in Procs |-> "idle"]
  /\ local = [p \in Procs |-> NoLocal]
  /\ resp = [p \in Procs |-> "none"]
  /\ contacts = {}
  /\ outbox = {}

NextTitle == CreateSteps({1}, {NoSno}, ConcBookings)

SpecTitle == InitTitle /\ [][NextTitle]_vars

\* The two handlers of concurrent requests to the event API.
Runs == {1, 2}

\* The event API under concurrency: creations, updates and deletions of
\* events in every interleaving of the statements of two handlers.
NextSlug ==
  \/ \E p \in Runs, t \in SlugApiTitles :
       nextEventId + Cardinality(CreatingEvents) <= SlugEvents /\ Event_new(p, t)
  \/ \E p \in Runs, e \in DOMAIN events, t \in SlugApiTitles : Event_load(p, e, t)
  \/ \E p \in Runs : Event_save(p)
  \/ \E p \in Runs : Event_save_loop(p)
  \/ \E p \in Runs : Event_write(p)
  \/ \E e \in DOMAIN events : EventDestroy(e)

SpecSlug == Init /\ [][NextSlug]_vars

\* A title whose creation on a suitable table yields the slug.
CreationTitle(slug) ==
  IF slug \in { << >>, <<"-", "1">> } THEN <<"!">> ELSE slug

\* The event table that holds the slugs ss, one row each.
RECURSIVE TableOf(_)
TableOf(ss) ==
  IF ss = {} THEN << >>
  ELSE LET slug == CHOOSE x \in ss : TRUE
       IN  Append(TableOf(ss \ {slug}), [title |-> CreationTitle(slug), slug |-> slug])

\* Event tables of at most n rows with slugs of SlugPool.
Stores(n) == { TableOf(ss) : ss \in { x \in SUBSET SlugPool : Cardinality(x) <= n } }

\* The slug generator as a function: on every event table of Stores and
\* every title, two runs of Event.save of a new Event(title=t), up to
\* super().save().  No step writes the table.
InitSlugFn ==
  /\ events \in Stores(MaxStore)
  /\ bookings = << >>
  /\ nextEventId = Len(events) + 1
  /\ nextBookingId = 1
  /\ \E t \in SlugTitlesUpTo(SlugTitleLen) :
       local = [p \in Procs |-> IF p \in Runs THEN [NoLocal EXCEPT !.title = t] ELSE NoLocal]
  /\ pc = [p \in Procs |-> IF p \in Runs THEN "ev_save" ELSE "idle"]
  /\ resp = [p \in Procs |-> "none"]
  /\ contacts = {}
  /\ outbox = {}

NextSlugFn ==
  \/ \E p \in Runs : Event_save(p)
  \/ \E p \in Runs : Event_save_loop(p)

SpecSlugFn == InitSlugFn /\ [][NextSlugFn]_vars

\* Both uniqueness loops on every event table of Stores: handler 1 runs
\* Event.save of a new event, handler 2 creates bookings.
InitLoops ==
  /\ events \in Stores(MaxStore)
  /\ bookings = << >>
  /\ nextEventId = Len(events) + 1
  /\ nextBookingId = 1
  /\ \E t \in SlugApiTitles :
       local = [p \in Procs |-> IF p = 1 THEN [NoLocal EXCEPT !.title = t] ELSE NoLocal]
  /\ pc = [p \in Procs |-> IF p = 1 THEN "ev_save" ELSE "idle"]
  /\ resp = [p \in Procs |-> "none"]
  /\ contacts = {}
  /\ outbox = {}

NextLoops ==
  \/ Event_save(1)
  \/ Event_save_loop(1)
  \/ CreateSteps({2}, {NoSno}, ConcBookings)

SpecLoops == InitLoops /\ [][NextLoops]_vars

\* The event tables of Stores(n) with every choice of is_published and
\* assigned host for each row.
PublishedStores(n) ==
  UNION { { [e \in DOMAIN t |->
               [title |-> t[e].title, slug |-> t[e].slug,
                is_published |-> f[e][1], assigned_host |-> f[e][2]]] :
            f \in [DOMAIN t -> BOOLEAN \X HostIds] } : t \in Stores(n) }

\* Lookups by slug on every such table, by every requester: handler 1
\* answers one request after the other.  No step writes the table.
InitBySlug ==
  /\ events \in PublishedStores(PubEvents)
  /\ bookings = << >>
  /\ nextEventId = Len(events) + 1
  /\ nextBookingId = 1
  /\ pc = [p \in Procs |-> "idle"]
  /\ local = [p \in Procs |-> NoLocal]
  /\ resp = [p \in Procs |-> "none"]
  /\ contacts = {}
  /\ outbox = {}

NextBySlug == \E slug \in SlugPool, user \in Requesters : event_by_slug(1, slug, user)

SpecBySlug == InitBySlug /\ [][NextBySlug]_vars

(***************************************************************************)
(* Vocabulary of the properties.                                           *)
(***************************************************************************)
\* Handler p takes the step of Booking.save that generates a serial number.
Generates(p) == pc[p] = "save" /\ pc'[p] = "insert" /\ local[p].sno = NoSno

\* Handler p holds a generated serial number that it has not inserted yet.
HoldsGenerated(p) == pc[p] = "insert" /\ local[p].new_number > 0

\* ACRONYM-NNN: a hyphen, then a non-empty string of digits.
WellFormed(s) == (\E i \in 1..Len(s) : s[i] = "-") /\ CanParseInt(LastField(s))

\* The sequence component of a well-formed serial number.
SeqOf(s) == ParseInt(LastField(s))

MaxOf(S) == CHOOSE m \in S : \A n \in S : n <= m

EventSnos(e) == { bookings[b].sno : b \in existing_bookings(bookings, e) }

\* Handler p holds an Event instance whose slug Event.save has generated
\* and super().save() has not written yet.
HoldsSlug(p) == pc[p] = "ev_write" /\ local[p].counter > 0

\* The upper-cased first characters of the first min(3, n) words of a title.
Initials(title) ==
  LET w == Split(title)
      n == IF Len(w) < 3 THEN Len(w) ELSE 3
  IN  [i \in 1..n |-> Upper(w[i][1])]

(***************************************************************************)
(* C1: in every reachable state no two persisted bookings have the same    *)
(* serial number.                                                          *)
(***************************************************************************)
C1_SnoUnique ==
  \A b1, b2 \in DOMAIN bookings : b1 # b2 => bookings[b1].sno # bookings[b2].sno

\* Two bookings are stored and the UNIQUE index has rejected a write.
C1_Witness ==
  /\ Cardinality(DOMAIN bookings) >= 2
  /\ \E p \in Procs : resp[p] = "IntegrityError_sno"

(***************************************************************************)
(* C2: two creations that have each generated a serial number and not yet  *)
(* inserted it never hold equal serial numbers.                            *)
(***************************************************************************)
C2_GeneratedSnosDiffer ==
  \A p, q \in Procs :
    (p # q /\ HoldsGenerated(p) /\ HoldsGenerated(q)) => local[p].sno # local[q].sno

(***************************************************************************)
(* C3: a serial number is assigned on the creating save and only when the  *)
(* booking has none; no later step changes the sno of a persisted booking, *)
(* and an instance that is written back carries the sno of its row.        *)
(***************************************************************************)
C3_SnoAssignedOnce ==
  [][ /\ \A b \in DOMAIN bookings \cap DOMAIN bookings' :
           bookings'[b].sno = bookings[b].sno
      /\ \A b \in DOMAIN bookings' : bookings'[b].sno # NoSno
      /\ \A p \in Procs :
           /\ (pc[p] = "save" /\ local[p].sno # NoSno) => local'[p].sno = local[p].sno
           /\ (pc[p] \in {"insert", "resave", "scan_save"} /\ pc'[p] # "idle")
                => local'[p].sno = local[p].sno
           /\ (pc[p] \in {"resave", "scan_save"} /\ local[p].id \in DOMAIN bookings')
                => bookings'[local[p].id].sno = local[p].sno
    ]_vars

\* A scan has been saved: an activated booking is stored after a 200.
C3_Witness ==
  /\ \E p \in Procs : resp[p] = "200 Activated"
  /\ \E b \in DOMAIN bookings : bookings[b].is_activated

(***************************************************************************)
(* C4: when all serial numbers of an event are well formed, the sequence   *)
(* component of the next serial number generated for it is the maximum of  *)
(* their sequence components plus one.                                     *)
(***************************************************************************)
C4_NextIsMaxPlusOne ==
  [][ \A p \in Procs :
        LET ss == EventSnos(local[p].event)
        IN  (Generates(p) /\ ss # {} /\ \A s \in ss : WellFormed(s))
              => SeqOf(local'[p].sno) = MaxOf({ SeqOf(s) : s \in ss }) + 1
    ]_vars

(***************************************************************************)
(* C5: the first serial number generated for an event without bookings     *)
(* has the sequence component 001 (as claimed), or the lowest sequence     *)
(* number n >= 1 whose serial number ACRONYM-n is free (as amended).       *)
(***************************************************************************)
C5_FirstIs001 ==
  [][ \A p \in Procs :
        (Generates(p) /\ EventSnos(local[p].event) = {})
          => LastField(local'[p].sno) = <<"0", "0", "1">>
    ]_vars

C5_FirstIsLowestFree ==
  [][ \A p \in Procs :
        (Generates(p) /\ EventSnos(local[p].event) = {})
          => LET new == local'[p].sno
                 acr == BeforeLastHyphen(new)
                 n == SeqOf(new)
             IN  /\ WellFormed(new)
                 /\ n >= 1
                 /\ new = acr \o <<"-">> \o Format03d(n)
                 /\ new \notin Snos(bookings)
                 /\ \A k \in 1..(n - 1) :
                      (acr \o <<"-">> \o Format03d(k)) \in Snos(bookings)
    ]_vars

\* An event without bookings is about to receive the sequence number 002.
C5_Witness ==
  \E p \in Procs :
    /\ HoldsGenerated(p)
    /\ local[p].new_number = 1
    /\ EventSnos(local[p].event) = {}
    /\ LastField(local[p].sno) = <<"0", "0", "2">>

(***************************************************************************)
(* C6: the generated serial number is held by no booking of the store the  *)
(* generator read, whatever its event; it is the first free one at or      *)
(* after the number computed from the event's bookings.                    *)
(***************************************************************************)
C6_GeneratedIsFree ==
  [][ \A p \in Procs :
        Generates(p)
          => LET new == local'[p].sno
                 acr == BeforeLastHyphen(new)
                 first == local'[p].new_number
             IN  /\ new \notin Snos(bookings)
                 /\ SeqOf(new) >= first
                 /\ \A k \in first..(SeqOf(new) - 1) :
                      (acr \o <<"-">> \o Format03d(k)) \in Snos(bookings)
    ]_vars

\* The generator has stepped over a serial number of another event.
C6_Witness ==
  \E p \in Procs :
    /\ HoldsGenerated(p)
    /\ SeqOf(local[p].sno) > local[p].new_number
    /\ \E b \in DOMAIN bookings :
         /\ bookings[b].event # local[p].event
         /\ bookings[b].sno = BeforeLastHyphen(local[p].sno) \o <<"-">>
                                \o Format03d(local[p].new_number)

(***************************************************************************)
(* C7: a creation whose generated serial number was taken by another       *)
(* booking before its insert never ends in an error.                       *)
(***************************************************************************)
C7_ConflictNotSurfaced ==
  [][ \A p \in Procs :
        HoldsGenerated(p) => resp'[p] # "IntegrityError_sno"
    ]_vars

(***************************************************************************)
(* C8: when the suffix of the event's top serial number (first by          *)
(* descending string order) is not an integer, generation completes, and   *)
(* the new sequence number is the count of the event's bookings plus one.  *)
(***************************************************************************)
C8_FallbackToCount ==
  [][ \A p \in Procs :
        LET e == local[p].event
        IN  ( /\ Generates(p)
              /\ EventSnos(e) # {}
              /\ ~CanParseInt(LastField(highest_sno(bookings, e))) )
              => /\ local'[p].new_number = Cardinality(existing_bookings(bookings, e)) + 1
                 /\ local'[p].sno # NoSno
                 /\ SeqOf(local'[p].sno) >= local'[p].new_number
    ]_vars

\* A number generated after a failed parse, from an event with two bookings.
C8_Witness ==
  \E p \in Procs :
    /\ HoldsGenerated(p)
    /\ local[p].new_number = 3
    /\ Cardinality(existing_bookings(bookings, local[p].event)) = 2
    /\ ~CanParseInt(LastField(highest_sno(bookings, local[p].event)))

(***************************************************************************)
(* C9: the part of a generated serial number before its last hyphen is the *)
(* upper-cased first characters of the first min(3, n) words of the title  *)
(* of the booking's event.                                                 *)
(***************************************************************************)
C9_PrefixIsInitials ==
  [][ \A p \in Procs :
        Generates(p) => BeforeLastHyphen(local'[p].sno) = Initials(local[p].title)
    ]_vars

\* A serial number generated from a title of four words.
C9_Witness ==
  \E p \in Procs :
    /\ HoldsGenerated(p)
    /\ Len(Split(events[local[p].event].title)) = 4
    /\ BeforeLastHyphen(local[p].sno) = <<"A", "B", "A">>

(***************************************************************************)
(* C10: the sequence component of a generated serial number is exactly     *)
(* three digits (as claimed), or the digits of the number zero-padded to   *)
(* at least three: more than three from 1000 on (as amended).              *)
(***************************************************************************)
C10_ExactlyThreeDigits ==
  \A p \in Procs :
    HoldsGenerated(p)
      => LET f == LastField(local[p].sno)
         IN  Len(f) = 3 /\ \A i \in 1..Len(f) : IsDigit(f[i])

C10_AtLeastThreeDigits ==
  \A p \in Procs :
    HoldsGenerated(p)
      => LET f == LastField(local[p].sno)
         IN  /\ \A i \in 1..Len(f) : IsDigit(f[i])
             /\ Len(f) >= 3
             /\ Len(f) > 3 => f[1] # "0"
             /\ Len(f) = 3 <=> ParseInt(f) < 1000

\* The sequence number 1000 has been generated.
C10_Witness ==
  \E p \in Procs :
    HoldsGenerated(p) /\ LastField(local[p].sno) = <<"1", "0", "0", "0">>

(***************************************************************************)
(* C11: for an event whose title has no words and that has no bookings,    *)
(* generation completes with an empty acronym, and the serial number is    *)
(* -001 (as claimed), or -NNN for the lowest N >= 1 whose serial number no *)
(* booking holds (as amended).                                             *)
(***************************************************************************)
C11_NoWordsGivesDash001 ==
  [][ \A p \in Procs :
        ( /\ Generates(p)
          /\ Split(local[p].title) = << >>
          /\ EventSnos(local[p].event) = {} )
          => local'[p].sno = <<"-", "0", "0", "1">>
    ]_vars

C11_NoWordsGivesLowestFree ==
  [][ \A p \in Procs :
        ( /\ Generates(p)
          /\ Split(local[p].title) = << >>
          /\ EventSnos(local[p].event) = {} )
          => LET new == local'[p].sno
                 n == SeqOf(new)
             IN  /\ WellFormed(new)
                 /\ BeforeLastHyphen(new) = << >>
                 /\ n >= 1
                 /\ new = <<"-">> \o Format03d(n)
                 /\ new \notin Snos(bookings)
                 /\ \A k \in 1..(n - 1) : (<<"-">> \o Format03d(k)) \in Snos(bookings)
    ]_vars

\* An event without words and without bookings is about to receive -002.
C11_Witness ==
  \E p \in Procs :
    /\ HoldsGenerated(p)
    /\ local[p].event \in DOMAIN events
    /\ Split(events[local[p].event].title) = << >>
    /\ EventSnos(local[p].event) = {}
    /\ local[p].sno = <<"-", "0", "0", "2">>

(***************************************************************************)
(* C12: in every reachable state of the event table, under every           *)
(* interleaving of creations and updates of events, no two persisted       *)
(* events have the same slug.                                              *)
(***************************************************************************)
C12_SlugUnique ==
  \A e1, e2 \in DOMAIN events : e1 # e2 => events[e1].slug # events[e2].slug

\* Two events are stored and the UNIQUE index has rejected a write.
C12_Witness ==
  /\ Cardinality(DOMAIN events) >= 2
  /\ \E p \in Procs : resp[p] = "IntegrityError_slug"

(***************************************************************************)
(* C13: for every title and every event table, the slug that Event.save    *)
(* assigns to a new event is the slug of no row of the table.              *)
(***************************************************************************)
C13_SlugNotInStore ==
  \A p \in Procs : HoldsSlug(p) => local[p].slug \notin Slugs(events)

\* A slug assigned after the loop stepped over two rows.
C13_Witness ==
  \E p \in Procs :
    /\ HoldsSlug(p)
    /\ local[p].counter = 3
    /\ slugify(local[p].title) \in Slugs(events)

C15_BaseOrSmallestCounter ==
  \A p \in Procs :
    HoldsSlug(p)
      => LET base == slugify(local[p].title)
             S == Slugs(events)
             slug == local[p].slug
         IN  IF base \notin S
               THEN slug = base
               ELSE \E k \in 1..Cardinality(S) :
                      /\ slug = base \o <<"-">> \o Decimal(k)
                      /\ slug \notin S
                      /\ \A j \in 1..(k - 1) : (base \o <<"-">> \o Decimal(j)) \in S

\* The title a on a table that holds a and a-1: the slug is a-2.
C15_Witness ==
  \E p \in Procs :
    /\ HoldsSlug(p)
    /\ slugify(local[p].title) = <<"a">>
    /\ local[p].slug = <<"a", "-", "2">>
    /\ {<<"a">>, <<"a", "-", "1">>} \subseteq Slugs(events)

(***************************************************************************)
(* C16: no step changes the slug of a persisted event: after every later   *)
(* save and API update the slug is the one assigned at creation.           *)
(***************************************************************************)
C16_SlugFixedAtCreation ==
  [][ \A e \in DOMAIN events \cap DOMAIN events' :
        events'[e].slug = events[e].slug
    ]_vars

(***************************************************************************)
(* C17: both uniqueness loops end and return a value on every finite       *)
(* store: each pass of a loop has found one more row of the table, so the  *)
(* serial-number loop makes at most as many passes as there are bookings   *)
(* and the slug loop at most as many as there are events.                  *)
(***************************************************************************)
C17_LoopsBoundedByStore ==
  \A p \in Procs :
    /\ HoldsGenerated(p)
         => /\ WellFormed(local[p].sno)
            /\ SeqOf(local[p].sno) - local[p].new_number <= Cardinality(DOMAIN bookings)
    /\ pc[p] \in {"ev_loop", "ev_write"}
         => local[p].counter - 1 <= Cardinality(DOMAIN events)
    /\ HoldsSlug(p) => local[p].slug \notin Slugs(events)

\* Both loops have made passes: the slug loop one per row of the table.
C17_Witness ==
  /\ \E p \in Procs :
       HoldsGenerated(p) /\ SeqOf(local[p].sno) > local[p].new_number
  /\ \E q \in Procs :
       /\ HoldsSlug(q)
       /\ Cardinality(DOMAIN events) >= 2
       /\ local[q].counter - 1 = Cardinality(DOMAIN events)

(***************************************************************************)
(* C18: a serial number issued to a booking is never the serial number of  *)
(* a different, later booking: whenever a handler holds the instance of a  *)
(* booking it inserted or loaded, no other row of the table has that       *)
(* instance's serial number.                                               *)
(***************************************************************************)
C18_SnoNeverReissued ==
  \A p \in Procs :
    pc[p] \in {"resave", "scan_save"}
      => \A b \in DOMAIN bookings :
           bookings[b].sno = local[p].sno => b = local[p].id

(***************************************************************************)
(* C19: no two bookings of the same event have the same sequence           *)
(* component in their well-formed serial numbers.                          *)
(***************************************************************************)
C19_SequenceUniqueInEvent ==
  \A b1, b2 \in DOMAIN bookings :
    ( /\ b1 # b2
      /\ bookings[b1].event = bookings[b2].event
      /\ WellFormed(bookings[b1].sno)
      /\ WellFormed(bookings[b2].sno) )
      => SeqOf(bookings[b1].sno) # SeqOf(bookings[b2].sno)

(***************************************************************************)
(* C20: the QR code of every persisted booking is built from the           *)
(* booking's serial number, which is not empty: its file name is           *)
(* <sno>_qr.png and the URL it encodes ends in /activate/<sno>.            *)
(***************************************************************************)
C20_QrBuiltFromSno ==
  \A b \in DOMAIN bookings :
    /\ bookings[b].sno # NoSno
    /\ bookings[b].qr_code.filename = bookings[b].sno \o <<"_qr.png">>
    /\ bookings[b].qr_code.activation_url =
         <<"https://event-fe.onrender.com", "/activate/">> \o bookings[b].sno

\* A booking with a generated serial number is stored with its QR code
\* before the view builds the QR code again.
C20_Witness ==
  \E p \in Procs :
    /\ pc[p] = "resave"
    /\ local[p].id \in DOMAIN bookings
    /\ bookings[local[p].id].qr_code.filename =
         <<"A", "-", "0", "0", "1", "_qr.png">>

(***************************************************************************)
(* C21: a QR scan of an existing booking, by id or by sno, negates the     *)
(* stored is_activated (so two consecutive scans restore it), answers 200, *)
(* and the status of the response is Activated exactly when the stored     *)
(* is_activated is true after the scan.                                    *)
(***************************************************************************)
C21_ScanToggles ==
  [][ \A p \in Procs : (pc[p] = "scan_save" /\ pc'[p] = "idle") =>
        LET b == local[p].id
        IN  /\ b \in DOMAIN bookings /\ b \in DOMAIN bookings'
            /\ bookings'[b].is_activated = ~bookings[b].is_activated
            /\ resp'[p] \in {"200 Activated", "200 Not Scanned"}
            /\ (resp'[p] = "200 Activated") <=> bookings'[b].is_activated
    ]_vars

\* The second of two consecutive scans of the only booking has answered:
\* the booking is back to not activated and the status says so.
C21_Witness ==
  /\ DOMAIN bookings = {1}
  /\ ~bookings[1].is_activated
  /\ resp[1] = "200 Not Scanned"

(***************************************************************************)
(* C22: no toggle is lost: with scans as the only writers, every scan that *)
(* completes negates the stored is_activated of its booking, so that n     *)
(* completed scans leave the initial value when n is even and its negation *)
(* when n is odd, in every interleaving of their reads and saves.          *)
(***************************************************************************)
C22_NoToggleLost ==
  [][ \A p \in Procs : (pc[p] = "scan_save" /\ pc'[p] = "idle") =>
        bookings'[local[p].id].is_activated = ~bookings[local[p].id].is_activated
    ]_vars

(***************************************************************************)
(* C23: a registration that is answered 404 or 400 leaves the store as it  *)
(* was: it creates no Booking and no EmergencyContact.                     *)
(***************************************************************************)
C23_RejectedLeavesStore ==
  [][ \A p \in Procs :
        (pc[p] = "idle" /\ pc'[p] = "idle" /\ resp'[p] \in {"404", "400"})
          => (bookings' = bookings /\ contacts' = contacts)
    ]_vars

C26_TotalFollowsPayment ==
  [][ /\ \A b \in DOMAIN bookings' :
           bookings'[b].payment_amount > 0
             => bookings'[b].total_amount = bookings'[b].payment_amount
      /\ \A p \in Procs :
           LET given == local[p]
               expected == IF given.payment_amount > 0 THEN given.payment_amount
                           ELSE given.total_amount
           IN  /\ (pc[p] = "save" /\ pc'[p] = "insert") =>
                     /\ local'[p].payment_amount = given.payment_amount
                     /\ local'[p].total_amount = expected
               /\ (pc[p] = "insert" /\ pc'[p] = "resave") =>
                     /\ bookings'[nextBookingId].payment_amount = given.payment_amount
                     /\ bookings'[nextBookingId].total_amount = expected
               /\ (pc[p] \in {"resave", "scan_save"} /\ pc'[p] = "idle") =>
                     /\ bookings'[given.id].payment_amount = given.payment_amount
                     /\ bookings'[given.id].total_amount = expected
      /\ \A b \in DOMAIN bookings :
           (pc' = pc /\ b \in DOMAIN bookings' /\ bookings'[b] # bookings[b]) =>
             \A pay \in Amounts, tot \in Amounts :
               BookingUpdate_amounts(b, bookings[b].event,
                                     bookings[b].is_activated, pay, tot) =>
                 /\ bookings'[b].payment_amount = pay
                 /\ bookings'[b].total_amount = (IF pay > 0 THEN pay ELSE tot)
    ]_vars

\* A booking without a payment has been created with a total and saved
\* again by a scan: it is stored with the total it was given.
C26_Witness ==
  /\ resp[1] = "200 Activated"
  /\ \E b \in DOMAIN bookings :
       /\ bookings[b].payment_amount = 0 /\ bookings[b].total_amount = 1
       /\ bookings[b].is_activated

(***************************************************************************)
(* C25: a lookup by slug answers 404 when no event has the slug, and when  *)
(* the event is not published and the requester is anonymous or is neither *)
(* a superuser nor the user whose id is the id of the assigned host: the   *)
(* data of an unpublished event is returned to no other requester.         *)
(***************************************************************************)
C25_UnpublishedHidden ==
  [][ \A p \in Procs, slug \in SlugPool, user \in Requesters :
        event_by_slug(p, slug, user) =>
          LET found == { e \in DOMAIN events : events[e].slug = slug }
              outsider ==
                \/ ~user.is_authenticated
                \/ /\ ~user.is_superuser
                   /\ \A e \in found : user.id # events[e].assigned_host
          IN  /\ found = {} => resp'[p] = "404 Event not found"
              /\ (found # {} /\ outsider /\ \A e \in found : ~events[e].is_published)
                   => resp'[p] = "404 Event not published"
    ]_vars

\* A lookup of an unpublished event has been refused.
C25_Witness ==
  /\ resp[1] = "404 Event not published"
  /\ \E e \in DOMAIN events : ~events[e].is_published

====
